---- MODULE Spec2Model ----
(***************************************************************************)
(* A model of weedle's combinator layer (src/common.rs): the Parse impls   *)
(* for Option, Box, Vec, tuples, the four delimited groups, Punctuated,    *)
(* PunctuatedNonEmpty and Identifier.                                      *)
(*                                                                         *)
(* Text is a sequence of one-character strings.  A parse result is either  *)
(* [ok |-> TRUE, rest, val] (nom's Ok((rest, val))) or                     *)
(* [ok |-> FALSE, err] (nom's Err(Err::Error(kind))).  The input type is   *)
(* nom's CompleteStr, so no parser of this layer returns Incomplete and    *)
(* at_eof() is constantly true.                                            *)
(***************************************************************************)
EXTENDS Integers, Sequences, FiniteSets, TLC

VARIABLES input, op, pc, cur, acc, attempts, result

vars == <<input, op, pc, cur, acc, attempts, result>>

(***************************************************************************)
(* Bounds of the model.                                                    *)
(***************************************************************************)
\* longest raw input text
MaxLen == 4
\* longest list of identifier names that is joined into an input text
MaxItems == 3

(***************************************************************************)
(* Character classes of the identifier regex and of nom's `sp`.            *)
(***************************************************************************)
Letters ==
    {"a", "b", "c", "d", "e", "f", "g", "h", "i", "j", "k", "l", "m",
     "n", "o", "p", "q", "r", "s", "t", "u", "v", "w", "x", "y", "z",
     "A", "B", "C", "D", "E", "F", "G", "H", "I", "J", "K", "L", "M",
     "N", "O", "P", "Q", "R", "S", "T", "U", "V", "W", "X", "Y", "Z"}

Digits == {"0", "1", "2", "3", "4", "5", "6", "7", "8", "9"}

\* [0-9A-Z_a-z-]
IdentChars == Digits \cup Letters \cup {"_", "-"}

\* the separators ws! eats: space, tab, carriage return, line feed
Whitespace == {" ", "\t", "\r", "\n"}

(***************************************************************************)
(* Results.                                                                *)
(***************************************************************************)
Ok(rest, val) == [ok |-> TRUE, rest |-> rest, val |-> val]

Err(kind) == [ok |-> FALSE, err |-> kind]

NoResult == [ok |-> FALSE, err |-> "none"]

Drop(s, n) == SubSeq(s, n + 1, Len(s))

Take(s, n) == SubSeq(s, 1, n)

(***************************************************************************)
(* Leaves: ws!, the identifier regex, the terminal tokens.                 *)
(***************************************************************************)
RECURSIVE sp(_)
\* nom's `sp`: drops the leading run of separators; never fails
sp(i) == IF Len(i) > 0 /\ i[1] \in Whitespace THEN sp(Tail(i)) ELSE i

RECURSIVE IdentRun(_, _)
\* length of the match of [0-9A-Z_a-z-]* continued from position n (greedy)
IdentRun(i, n) ==
    IF n < Len(i) /\ i[n + 1] \in IdentChars THEN IdentRun(i, n + 1) ELSE n

\* length of the match of ^(_?[A-Za-z][0-9A-Z_a-z-]*) on i, 0 when none
re_capture(i) ==
    IF Len(i) >= 2 /\ i[1] = "_" /\ i[2] \in Letters THEN IdentRun(i, 2)
    ELSE IF Len(i) >= 1 /\ i[1] \in Letters THEN IdentRun(i, 1)
    ELSE 0

\* the whitespace after the match is left in the remaining input
IdentifierParse_keeps_trailing_ws(i) ==
    LET i1 == sp(i)
        n  == re_capture(i1)
    IN  IF n = 0 THEN Err("RegexpCapture")
        ELSE Ok(Drop(i1, n), [name |-> Take(i1, n)])

\* impl Parse for Identifier: ws!(re_capture_static!(..)), name = capture 0
IdentifierParse(i) ==
    LET i1 == sp(i)
        n  == re_capture(i1)
    IN  IF n = 0 THEN Err("RegexpCapture")
        ELSE Ok(sp(Drop(i1, n)), [name |-> Take(i1, n)])

\* the fixed lexeme of each terminal token this layer uses
Lexeme(name) ==
    CASE name = "OpenParen"    -> <<"{">>
      [] name = "CloseParen"   -> <<"}">>
      [] name = "OpenBracket"  -> <<"[">>
      [] name = "CloseBracket" -> <<"]">>
      [] name = "OpenBrace"    -> <<"(">>
      [] name = "CloseBrace"   -> <<")">>
      [] name = "LessThan"     -> <<"<">>
      [] name = "GreaterThan"  -> <<">">>
      [] name = "Comma"        -> <<",">>
      [] name = "Assign"       -> <<"=">>

\* a terminal: its lexeme with the surrounding whitespace skipped
TermParse(name, i) ==
    LET i1  == sp(i)
        lex == Lexeme(name)
    IN  IF Len(i1) >= Len(lex) /\ Take(i1, Len(lex)) = lex
        THEN Ok(sp(Drop(i1, Len(lex))), [term |-> name])
        ELSE Err("Tag")

\* S::default() of a terminal type: the unit value
DefaultOf(S) == [term |-> S.name]

(***************************************************************************)
(* Types, as the type expressions a caller instantiates the impls with.    *)
(***************************************************************************)
Identifier == [k |-> "Identifier"]

Term(name) == [k |-> "Term", name |-> name]

OptionOf(T) == [k |-> "Option", of |-> T]

BoxOf(T) == [k |-> "Box", of |-> T]

VecOf(T) == [k |-> "Vec", of |-> T]

Tuple2Of(T, U) == [k |-> "Tuple2", a |-> T, b |-> U]

Tuple3Of(T, U, V) == [k |-> "Tuple3", a |-> T, b |-> U, c |-> V]

Parenthesized(T) == [k |-> "Parenthesized", of |-> T]

Bracketed(T) == [k |-> "Bracketed", of |-> T]

Braced(T) == [k |-> "Braced", of |-> T]

Generics(T) == [k |-> "Generics", of |-> T]

Punctuated(T, S) == [k |-> "Punctuated", of |-> T, sep |-> S]

PunctuatedNonEmpty(T, S) == [k |-> "PunctuatedNonEmpty", of |-> T, sep |-> S]

NoType == [k |-> "none"]

Comma == Term("Comma")

(***************************************************************************)
(* The combinators.                                                        *)
(***************************************************************************)
RECURSIVE Parse(_, _)
RECURSIVE many0(_, _, _)
RECURSIVE do_parse(_, _, _)
RECURSIVE separated_loop(_, _, _, _)

\* the failure of the inner parser is handed on
opt_propagates(r, i) ==
    IF r.ok THEN Ok(r.rest, [some |-> TRUE, v |-> r.val])
    ELSE r

\* opt!: Some on success, None (and the input as it was) on Err::Error
opt(r, i) ==
    IF r.ok THEN Ok(r.rest, [some |-> TRUE, v |-> r.val])
    ELSE Ok(i, [some |-> FALSE])

\* the loop returns after its first element
many0_trip_once(T, inp, res) ==
    LET r == Parse(T, inp)
    IN  IF r.ok /\ r.rest # inp
        THEN [brk |-> TRUE, ret |-> Ok(r.rest, [vec |-> Append(res, r.val)])]
        ELSE [brk |-> TRUE, ret |-> Ok(inp, [vec |-> res])]

\* a trip that consumed nothing is taken like any other
many0_trip_unguarded(T, inp, res) ==
    LET r == Parse(T, inp)
    IN  IF r.ok
        THEN [brk |-> FALSE, inp |-> r.rest, res |-> Append(res, r.val)]
        ELSE [brk |-> TRUE, ret |-> Ok(inp, [vec |-> res])]

\* one trip of many0!'s loop on `inp` with `res` collected so far
many0_trip(T, inp, res) ==
    LET r == Parse(T, inp)
    IN  IF r.ok
        THEN IF r.rest = inp
             \* a trip that consumed nothing: CompleteStr is at_eof()
             THEN [brk |-> TRUE, ret |-> Ok(inp, [vec |-> res])]
             ELSE [brk |-> FALSE, inp |-> r.rest, res |-> Append(res, r.val)]
        ELSE [brk |-> TRUE, ret |-> Ok(inp, [vec |-> res])]

many0(T, inp, res) ==
    LET t == many0_trip(T, inp, res)
    IN  IF t.brk THEN t.ret ELSE many0(T, t.inp, t.res)

\* Generics closes with the close token of Braced
Comps_wrong_close(T) ==
    CASE T.k = "Box"           -> <<T.of>>
      [] T.k = "Tuple2"        -> <<T.a, T.b>>
      [] T.k = "Tuple3"        -> <<T.a, T.b, T.c>>
      [] T.k = "Parenthesized" -> <<Term("OpenParen"), T.of, Term("CloseParen")>>
      [] T.k = "Bracketed"     -> <<Term("OpenBracket"), T.of, Term("CloseBracket")>>
      [] T.k = "Braced"        -> <<Term("OpenBrace"), T.of, Term("CloseBrace")>>
      [] T.k = "Generics"      -> <<Term("LessThan"), T.of, Term("CloseBrace")>>

\* the components a do_parse! impl parses, in order
Comps(T) ==
    CASE T.k = "Box"           -> <<T.of>>
      [] T.k = "Tuple2"        -> <<T.a, T.b>>
      [] T.k = "Tuple3"        -> <<T.a, T.b, T.c>>
      [] T.k = "Parenthesized" -> <<Term("OpenParen"), T.of, Term("CloseParen")>>
      [] T.k = "Bracketed"     -> <<Term("OpenBracket"), T.of, Term("CloseBracket")>>
      [] T.k = "Braced"        -> <<Term("OpenBrace"), T.of, Term("CloseBrace")>>
      [] T.k = "Generics"      -> <<Term("LessThan"), T.of, Term("GreaterThan")>>

\* the value a do_parse! impl builds from its components
Build(T, vals) ==
    CASE T.k = "Box"           -> [boxed |-> vals[1]]
      [] T.k = "Tuple2"        -> [tup |-> vals]
      [] T.k = "Tuple3"        -> [tup |-> vals]
      [] T.k = "Parenthesized" ->
            [open_paren |-> vals[1], body |-> vals[2], close_paren |-> vals[3]]
      [] T.k = "Bracketed"     ->
            [open_bracket |-> vals[1], body |-> vals[2], close_bracket |-> vals[3]]
      [] T.k = "Braced"        ->
            [open_brace |-> vals[1], body |-> vals[2], close_brace |-> vals[3]]
      [] T.k = "Generics"      ->
            [open_angle |-> vals[1], body |-> vals[2], close_angle |-> vals[3]]

\* the next component is parsed where this one began
do_parse_stage_same_cursor(comps, c, vals) ==
    LET r == Parse(Head(comps), c)
    IN  IF r.ok
        THEN [failed |-> FALSE, todo |-> Tail(comps), cur |-> c,
              acc |-> Append(vals, r.val)]
        ELSE [failed |-> TRUE, ret |-> r]

\* one `x: weedle!(X) >>` stage of do_parse!: parse the next component at c
do_parse_stage(comps, c, vals) ==
    LET r == Parse(Head(comps), c)
    IN  IF r.ok
        THEN [failed |-> FALSE, todo |-> Tail(comps), cur |-> r.rest,
              acc |-> Append(vals, r.val)]
        ELSE [failed |-> TRUE, ret |-> r]

\* do_parse! run to its end; `vals` are the components parsed so far.  The
\* field `tried` counts the component parsers that were called.
do_parse(comps, c, vals) ==
    IF Len(comps) = 0
    THEN [ok |-> TRUE, rest |-> c, vals |-> vals, tried |-> Len(vals)]
    ELSE LET st == do_parse_stage(comps, c, vals)
         IN  IF st.failed
             THEN [ok |-> FALSE, err |-> st.ret.err, tried |-> Len(vals) + 1]
             ELSE do_parse(st.todo, st.cur, st.acc)

\* a do_parse! impl as a whole
DoParseImpl(T, i) ==
    LET r == do_parse(Comps(T), i, <<>>)
    IN  IF r.ok THEN Ok(r.rest, Build(T, r.vals)) ELSE Err(r.err)

\* a separator with no element after it is consumed
separated_loop_eats_separator(S, T, inp, res) ==
    LET s == Parse(S, inp)
    IN  IF ~s.ok THEN Ok(inp, [vec |-> res])
        ELSE IF Len(s.rest) = Len(inp) THEN Ok(inp, [vec |-> res])
        ELSE LET e == Parse(T, s.rest)
             IN  IF ~e.ok THEN Ok(s.rest, [vec |-> res])
                 ELSE IF Len(e.rest) = Len(s.rest) THEN Ok(inp, [vec |-> res])
                 ELSE separated_loop(S, T, e.rest, Append(res, e.val))

\* the loop of separated_list! / separated_nonempty_list! after the first
\* element: separator, then element, until one of them does not match
separated_loop(S, T, inp, res) ==
    LET s == Parse(S, inp)
    IN  IF ~s.ok THEN Ok(inp, [vec |-> res])
        ELSE IF Len(s.rest) = Len(inp) THEN Ok(inp, [vec |-> res])
        ELSE LET e == Parse(T, s.rest)
             IN  IF ~e.ok THEN Ok(inp, [vec |-> res])
                 ELSE IF Len(e.rest) = Len(s.rest) THEN Ok(inp, [vec |-> res])
                 ELSE separated_loop(S, T, e.rest, Append(res, e.val))

\* the failure of the first element is handed on
separated_list_requires_first(S, T, i) ==
    LET r == Parse(T, i)
    IN  IF ~r.ok THEN r
        ELSE IF Len(r.rest) = Len(i) THEN Err("SeparatedList")
        ELSE separated_loop(S, T, r.rest, <<r.val>>)

\* the list ends after its first element
separated_list_single(S, T, i) ==
    LET r == Parse(T, i)
    IN  IF ~r.ok THEN Ok(i, [vec |-> <<>>])
        ELSE IF Len(r.rest) = Len(i) THEN Err("SeparatedList")
        ELSE Ok(r.rest, [vec |-> <<r.val>>])

\* separated_list!: an empty list when the first element does not match
separated_list(S, T, i) ==
    LET r == Parse(T, i)
    IN  IF ~r.ok THEN Ok(i, [vec |-> <<>>])
        ELSE IF Len(r.rest) = Len(i) THEN Err("SeparatedList")
        ELSE separated_loop(S, T, r.rest, <<r.val>>)

\* an empty list when the first element does not match
separated_nonempty_list_allows_empty(S, T, i) ==
    LET r == Parse(T, i)
    IN  IF ~r.ok THEN Ok(i, [vec |-> <<>>])
        ELSE IF Len(r.rest) = Len(i) THEN Err("SeparatedNonEmptyList")
        ELSE separated_loop(S, T, r.rest, <<r.val>>)

\* separated_nonempty_list!: the first element must match
separated_nonempty_list(S, T, i) ==
    LET r == Parse(T, i)
    IN  IF ~r.ok THEN r
        ELSE IF Len(r.rest) = Len(i) THEN Err("SeparatedNonEmptyList")
        ELSE separated_loop(S, T, r.rest, <<r.val>>)

\* impl Parse for Punctuated<T, S>
PunctuatedParse(T, S, i) ==
    LET r == separated_list(S, T, i)
    IN  IF r.ok THEN Ok(r.rest, [list |-> r.val.vec, separator |-> DefaultOf(S)])
        ELSE r

\* impl Parse for PunctuatedNonEmpty<T, S>
PunctuatedNonEmptyParse(T, S, i) ==
    LET r == separated_nonempty_list(S, T, i)
    IN  IF r.ok THEN Ok(r.rest, [list |-> r.val.vec, separator |-> DefaultOf(S)])
        ELSE r

\* weedle!(T): <T as Parse>::parse
Parse(T, i) ==
    CASE T.k = "Identifier"         -> IdentifierParse(i)
      [] T.k = "Term"               -> TermParse(T.name, i)
      [] T.k = "Option"             -> opt(Parse(T.of, i), i)
      [] T.k = "Vec"                -> many0(T.of, i, <<>>)
      [] T.k = "Punctuated"         -> PunctuatedParse(T.of, T.sep, i)
      [] T.k = "PunctuatedNonEmpty" -> PunctuatedNonEmptyParse(T.of, T.sep, i)
      [] OTHER                      -> DoParseImpl(T, i)

(***************************************************************************)
(* The inputs a caller hands to parse.                                     *)
(***************************************************************************)
StringsUpTo(A, n) == UNION {[1..k -> A] : k \in 0..n}

\* the characters of the raw inputs, one alphabet per family of impls
IdentAlphabet == {"a", "_", "1", "-", " ", "="}

PunctAlphabet == {"a", "b", ",", " "}

ParenAlphabet == {"a", " ", "{", "}", ")"}

BracketAlphabet == {"a", " ", "[", "]", "}"}

BraceAlphabet == {"a", " ", "(", ")", "]"}

AngleAlphabet == {"a", " ", "<", ">", "}"}

Alphabets ==
    {IdentAlphabet, PunctAlphabet, ParenAlphabet, BracketAlphabet,
     BraceAlphabet, AngleAlphabet}

RawInputs == UNION {StringsUpTo(A, MaxLen) : A \in Alphabets}

\* identifier names that are serialised and joined by a separator lexeme
Names == {<<"a">>, <<"_", "b">>, <<"a", "1">>, <<"b", "-">>}

ItemLists == UNION {[1..k -> Names] : k \in 1..MaxItems}

RECURSIVE Join(_, _)
\* the texts of `l` joined by the lexeme `lex`
Join(l, lex) ==
    IF Len(l) = 0 THEN <<>>
    ELSE IF Len(l) = 1 THEN l[1]
    ELSE l[1] \o lex \o Join(Tail(l), lex)

JoinedInputs == {Join(l, Lexeme("Comma")) : l \in ItemLists}

\* the inputs of the tests of mod test
TestInputs ==
    {<<"o", "n", "e">>,
     <<>>,
     <<"o", "n", "e", " ", "t", "w", "o", " ", "t", "h", "r", "e", "e">>,
     <<"{", " ", "o", "n", "e", " ", "}">>,
     <<"[", " ", "o", "n", "e", " ", "]">>,
     <<"(", " ", "o", "n", "e", " ", ")">>,
     <<"<", "o", "n", "e", ">">>,
     <<"<", "o", "n", "e", ",", " ", "t", "w", "o", ">">>,
     <<"o", "n", "e", ",", " ", "t", "w", "o", ",", " ", "t", "h", "r", "e", "e">>,
     <<"h", "e", "l", "l", "o">>,
     <<"h", "e", "l", "l", "o", "5">>,
     <<"_", "h", "e", "l", "l", "o", "_">>,
     <<" ", " ", "h", "e", "l", "l", "o", " ", " ">>,
     <<"h", "e", "l", "l", "o", " ", " ", "n", "o", "t", "e">>,
     <<"h", "e", "l", "l", "o", "=">>}

\* the element types the generic impls are instantiated with
ElemTypes == {Identifier, OptionOf(Identifier)}

PairTypes ==
    {Tuple2Of(Identifier, Comma), Tuple2Of(Identifier, Identifier),
     Tuple2Of(OptionOf(Identifier), Comma)}

TripleTypes ==
    {Tuple3Of(Identifier, Comma, Identifier),
     Tuple3Of(Identifier, OptionOf(Comma), Identifier)}

BodyTypes == {Identifier, Tuple3Of(Identifier, Comma, Identifier)}

(***************************************************************************)
(* The state machine: a caller picks an input, then asks one type to parse *)
(* it.  Vec's many0! loop is run one trip per step.                        *)
(***************************************************************************)
Init ==
    /\ input \in RawInputs \cup JoinedInputs \cup TestInputs
    /\ op = NoType
    /\ pc = "idle"
    /\ cur = <<>>
    /\ acc = <<>>
    /\ attempts = 0
    /\ result = NoResult

\* a parse that is one call: T::parse(input)
Call(T) ==
    /\ pc = "idle"
    /\ op' = T
    /\ result' = Parse(T, input)
    /\ pc' = "done"
    /\ UNCHANGED <<input, cur, acc, attempts>>

\* a do_parse! impl: T::parse(input), with the component parsers counted
CallDoParse(T) ==
    /\ pc = "idle"
    /\ op' = T
    /\ result' = DoParseImpl(T, input)
    /\ attempts' = do_parse(Comps(T), input, <<>>).tried
    /\ pc' = "done"
    /\ UNCHANGED <<input, cur, acc>>

ParseIdentifier == Call(Identifier)

ParseOption == \E T \in ElemTypes : Call(OptionOf(T))

ParseBox == \E T \in ElemTypes : CallDoParse(BoxOf(T))

ParseTuple2 == \E T \in PairTypes : CallDoParse(T)

ParseTuple3 == \E T \in TripleTypes : CallDoParse(T)

ParseParenthesized == \E T \in BodyTypes : CallDoParse(Parenthesized(T))

ParseBracketed == \E T \in BodyTypes : CallDoParse(Bracketed(T))

ParseBraced == \E T \in BodyTypes : CallDoParse(Braced(T))

ParseGenerics == \E T \in BodyTypes : CallDoParse(Generics(T))

ParsePunctuated == \E T \in ElemTypes : Call(Punctuated(T, Comma))

ParsePunctuatedNonEmpty == \E T \in ElemTypes : Call(PunctuatedNonEmpty(T, Comma))

\* Vec<T>::parse(input) entered: many0!'s locals are set up
ParseVec ==
    \E T \in ElemTypes :
        /\ pc = "idle"
        /\ op' = VecOf(T)
        /\ cur' = input
        /\ acc' = <<>>
        /\ pc' = "many0"
        /\ UNCHANGED <<input, attempts, result>>

\* one trip of many0!'s loop
Many0Trip ==
    /\ pc = "many0"
    /\ LET t == many0_trip(op.of, cur, acc)
       IN  IF t.brk
           THEN /\ result' = t.ret
                /\ pc' = "done"
                /\ UNCHANGED <<cur, acc>>
           ELSE /\ cur' = t.inp
                /\ acc' = t.res
                /\ UNCHANGED <<pc, result>>
    /\ UNCHANGED <<input, op, attempts>>

VecNext == ParseVec \/ Many0Trip

Next ==
    \/ ParseIdentifier
    \/ ParseOption
    \/ ParseBox
    \/ ParseTuple2
    \/ ParseTuple3
    \/ ParseParenthesized
    \/ ParseBracketed
    \/ ParseBraced
    \/ ParseGenerics
    \/ ParsePunctuated
    \/ ParsePunctuatedNonEmpty
    \/ ParseVec
    \/ Many0Trip

Spec == Init /\ [][Next]_vars

\* Vec's loop alone; a call that has started runs on until it returns
VecSpec == Init /\ [][VecNext]_vars /\ WF_vars(Many0Trip)

(***************************************************************************)
(* Text predicates the properties are stated with.                         *)
(***************************************************************************)
AllIn(s, A) == \A k \in 1..Len(s) : s[k] \in A

\* the number of whitespace characters s starts with
LeadWs(s) ==
    CHOOSE p \in 0..Len(s) :
        /\ AllIn(Take(s, p), Whitespace)
        /\ (p = Len(s) \/ s[p + 1] \notin Whitespace)

\* s as a whole is `_?[A-Za-z][0-9A-Z_a-z-]*`
IsIdentText(s) ==
    \/ /\ Len(s) >= 1
       /\ s[1] \in Letters
       /\ AllIn(Drop(s, 1), IdentChars)
    \/ /\ Len(s) >= 2
       /\ s[1] = "_"
       /\ s[2] \in Letters
       /\ AllIn(Drop(s, 2), IdentChars)

\* s begins with an optional single underscore and then one ASCII letter
StartsIdent(s) ==
    \/ (Len(s) >= 1 /\ s[1] \in Letters)
    \/ (Len(s) >= 2 /\ s[1] = "_" /\ s[2] \in Letters)

Returned(kind) == pc = "done" /\ op.k = kind

(***************************************************************************)
(* C3.  Option<T> never fails: when T succeeds on the input the result is  *)
(* Some(value) with T's remaining input; when T fails the result is None   *)
(* and the remaining input is the whole input.                             *)
(***************************************************************************)
OptionNeverFails ==
    Returned("Option") =>
        LET r == Parse(op.of, input)
        IN  /\ result.ok
            /\ IF r.ok
               THEN /\ result.val.some
                    /\ result.val.v = r.val
                    /\ result.rest = r.rest
               ELSE /\ ~result.val.some
                    /\ result.rest = input

\* None on an input that is not empty: T failed and nothing was consumed
OptionAbsentWitness ==
    /\ Returned("Option")
    /\ op.of = Identifier
    /\ ~Parse(Identifier, input).ok
    /\ result.ok
    /\ ~result.val.some
    /\ Len(result.rest) >= 2

(***************************************************************************)
(* C6.  Identifier skips leading whitespace, then succeeds exactly when    *)
(* the text there starts with an optional single underscore and one ASCII  *)
(* letter; the name is the longest run of the regex, verbatim; whitespace  *)
(* after it is consumed and the remaining input starts at the first        *)
(* character after the match that is not whitespace.                       *)
(***************************************************************************)
IdentifierLexicalRule ==
    Returned("Identifier") =>
        LET text == Drop(input, LeadWs(input))
        IN  /\ result.ok <=> StartsIdent(text)
            /\ result.ok =>
                 LET n     == Len(result.val.name)
                     after == Drop(text, n)
                 IN  /\ result.val.name = Take(text, n)
                     /\ IsIdentText(result.val.name)
                     /\ (n = Len(text) \/ text[n + 1] \notin IdentChars)
                     /\ result.rest = Drop(after, LeadWs(after))
            /\ input = <<" ", " ", "h", "e", "l", "l", "o", " ", " ">> =>
                 result = Ok(<<>>, [name |-> <<"h", "e", "l", "l", "o">>])
            /\ input = <<"h", "e", "l", "l", "o", " ", " ", "n", "o", "t", "e">> =>
                 result = Ok(<<"n", "o", "t", "e">>, [name |-> <<"h", "e", "l", "l", "o">>])
            /\ input = <<"h", "e", "l", "l", "o", "=">> =>
                 result = Ok(<<"=">>, [name |-> <<"h", "e", "l", "l", "o">>])

\* an underscore name, whitespace after it, text left over
IdentifierWitness ==
    /\ Returned("Identifier")
    /\ result.ok
    /\ Len(result.val.name) >= 2
    /\ result.val.name[1] = "_"
    /\ Len(result.rest) >= 1
    /\ Len(input) > LeadWs(input) + Len(result.val.name) + Len(result.rest)

(***************************************************************************)
(* C1.  Vec<T> always succeeds and returns the matched elements in input   *)
(* order.  As amended: the remainder is one on which T fails or on which   *)
(* T succeeds without consuming anything (the trip many0! stops at); for   *)
(* a T that consumes input whenever it succeeds, T fails on the remainder. *)
(***************************************************************************)
StripWs(s) == SelectSeq(s, LAMBDA c : c \notin Whitespace)

\* the name an element of Vec<Identifier> or Vec<Option<Identifier>> holds
ElemName(T, v) == IF T.k = "Option" THEN v.v.name ELSE v.name

RECURSIVE NamesText(_, _)
\* the names of the elements, one after the other
NamesText(T, vs) ==
    IF Len(vs) = 0 THEN <<>> ELSE ElemName(T, vs[1]) \o NamesText(T, Tail(vs))

VecMaximalMunch ==
    Returned("Vec") =>
        /\ result.ok
        /\ LET T     == op.of
               vs    == result.val.vec
               n     == Len(input) - Len(result.rest)
               first == Parse(T, input)
               again == Parse(T, result.rest)
           IN  /\ result.rest = Drop(input, n)
               /\ \A k \in 1..Len(vs) :
                      /\ T.k = "Option" => vs[k].some
                      /\ IsIdentText(ElemName(T, vs[k]))
               /\ NamesText(T, vs) = StripWs(Take(input, n))
               /\ Len(vs) = 0 <=> (~first.ok \/ first.rest = input)
               /\ Len(vs) > 0 => vs[1] = first.val
               /\ ~again.ok \/ again.rest = result.rest
               /\ T = Identifier => ~again.ok

\* the claim as it was stated: T fails on the remainder, whatever T is
VecRemainderFailsT ==
    Returned("Vec") =>
        /\ result.ok
        /\ ~Parse(op.of, result.rest).ok

\* Vec<Option<Identifier>>: two elements, then a trip that consumed nothing
VecZeroWidthWitness ==
    /\ Returned("Vec")
    /\ op.of = OptionOf(Identifier)
    /\ result.ok
    /\ Len(result.val.vec) >= 2
    /\ Len(result.rest) >= 1
    /\ Parse(op.of, result.rest).ok

(***************************************************************************)
(* C10.  Vec<T> terminates on every input, for a T that can succeed        *)
(* without consuming input too: a trip of the loop either shortens the     *)
(* remaining input or ends the loop, and a call that began returns.        *)
(***************************************************************************)
VecTerminates ==
    /\ [][pc = "many0" =>
            \/ pc' = "done"
            \/ (pc' = "many0" /\ Len(cur') < Len(cur))]_vars
    /\ (pc = "many0") ~> (pc = "done")

\* a first trip of Option<Identifier> that consumed nothing, input left over
VecStopsWitness ==
    /\ Returned("Vec")
    /\ op.of = OptionOf(Identifier)
    /\ result.ok
    /\ Len(result.val.vec) = 0
    /\ result.rest = input
    /\ Len(input) >= 1

(***************************************************************************)
(* C8.  A tuple parses its components left to right, each one at the       *)
(* remainder the one before it left; it stops at the first component that  *)
(* fails, without calling the later ones, and then returns a failure that  *)
(* holds no value and no cursor; on success it returns all components in   *)
(* order with the last component's remainder.                              *)
(***************************************************************************)
\* a failure after n component parsers were called
FailedAfter(n) ==
    /\ ~result.ok
    /\ DOMAIN result = {"ok", "err"}
    /\ attempts = n

TupleLeftToRight ==
    (pc = "done" /\ op.k \in {"Tuple2", "Tuple3"}) =>
        LET r1 == Parse(op.a, input)
            r2 == Parse(op.b, r1.rest)
            r3 == Parse(op.c, r2.rest)
        IN  IF ~r1.ok THEN FailedAfter(1)
            ELSE IF ~r2.ok THEN FailedAfter(2)
            ELSE IF op.k = "Tuple2"
                 THEN /\ result = Ok(r2.rest, [tup |-> <<r1.val, r2.val>>])
                      /\ attempts = 2
            ELSE IF ~r3.ok THEN FailedAfter(3)
            ELSE /\ result = Ok(r3.rest, [tup |-> <<r1.val, r2.val, r3.val>>])
                 /\ attempts = 3

\* a Tuple3 whose first component matched and whose second did not
TupleAbortWitness ==
    /\ Returned("Tuple3")
    /\ Parse(op.a, input).ok
    /\ ~result.ok
    /\ attempts = 2
    /\ Parse(op.c, input).ok

(***************************************************************************)
(* C5.  Each of the four delimited groups succeeds only if the open token, *)
(* then the body, then the matching close token succeed in that order; a   *)
(* close token that is missing or of another kind makes the parse fail     *)
(* although the open token and the body matched, with no partial value.    *)
(***************************************************************************)
GroupKinds == {"Parenthesized", "Bracketed", "Braced", "Generics"}

OpenChar(kind) ==
    CASE kind = "Parenthesized" -> "{"
      [] kind = "Bracketed"     -> "["
      [] kind = "Braced"        -> "("
      [] kind = "Generics"      -> "<"

CloseChar(kind) ==
    CASE kind = "Parenthesized" -> "}"
      [] kind = "Bracketed"     -> "]"
      [] kind = "Braced"        -> ")"
      [] kind = "Generics"      -> ">"

\* s, after its leading whitespace, begins with the character ch
BeginsWith(s, ch) ==
    LET t == Drop(s, LeadWs(s)) IN Len(t) >= 1 /\ t[1] = ch

\* s after its leading whitespace and one character more
AfterChar(s) == Drop(s, LeadWs(s) + 1)

DelimitedGroupAllOrNothing ==
    (pc = "done" /\ op.k \in GroupKinds) =>
        LET openOk  == BeginsWith(input, OpenChar(op.k))
            body    == Parse(op.of, AfterChar(input))
            closeOk == BeginsWith(body.rest, CloseChar(op.k))
            after   == AfterChar(body.rest)
        IN  IF ~openOk THEN FailedAfter(1)
            ELSE IF ~body.ok THEN FailedAfter(2)
            ELSE IF ~closeOk THEN FailedAfter(3)
            ELSE /\ result.ok
                 /\ result.val.body = body.val
                 /\ result.rest = Drop(after, LeadWs(after))
                 /\ attempts = 3

\* open token and body matched, the close token is of another kind
GroupWrongCloseWitness ==
    /\ Returned("Braced")
    /\ op.of = Identifier
    /\ BeginsWith(input, "(")
    /\ Parse(Identifier, AfterChar(input)).ok
    /\ BeginsWith(Parse(Identifier, AfterChar(input)).rest, "]")
    /\ ~result.ok

(***************************************************************************)
(* C2.  A dangling separator: at least one T was parsed, then S matches    *)
(* and the T after it fails.  As amended: the parse succeeds with the list *)
(* built so far and the remaining input starts at that separator, which    *)
(* is not consumed.                                                        *)
(***************************************************************************)
PunctKinds == {"Punctuated", "PunctuatedNonEmpty"}

RECURSIVE DanglingFrom(_, _, _, _)
\* reads "S T S T .." from inp after the elements `seen`: whether an S is
\* met that no T follows, where that S begins, and the elements before it
DanglingFrom(S, T, inp, seen) ==
    LET s == Parse(S, inp)
    IN  IF ~s.ok \/ Len(s.rest) = Len(inp) THEN [found |-> FALSE]
        ELSE LET e == Parse(T, s.rest)
             IN  IF ~e.ok THEN [found |-> TRUE, at |-> inp, list |-> seen]
                 ELSE IF Len(e.rest) = Len(s.rest) THEN [found |-> FALSE]
                 ELSE DanglingFrom(S, T, e.rest, Append(seen, e.val))

Dangling(S, T, i) ==
    LET r == Parse(T, i)
    IN  IF ~r.ok \/ Len(r.rest) = Len(i) THEN [found |-> FALSE]
        ELSE DanglingFrom(S, T, r.rest, <<r.val>>)

DanglingSeparatorIsLeft ==
    (pc = "done" /\ op.k \in PunctKinds) =>
        LET d == Dangling(op.sep, op.of, input)
        IN  d.found =>
              /\ result.ok
              /\ result.val.list = d.list
              /\ Len(result.val.list) >= 1
              /\ result.rest = d.at
              /\ result.rest[1] = ","

\* the claim as it was stated: a dangling separator fails the whole parse
DanglingSeparatorFails ==
    (pc = "done" /\ op.k \in PunctKinds) =>
        (Dangling(op.sep, op.of, input).found => ~result.ok)

\* "a,a," and the like: two elements, the last separator left over
DanglingWitness ==
    /\ Returned("PunctuatedNonEmpty")
    /\ op.of = Identifier
    /\ Dangling(op.sep, op.of, input).found
    /\ result.ok
    /\ Len(result.val.list) = 2
    /\ result.rest = <<",">>

(***************************************************************************)
(* C4.  PunctuatedNonEmpty fails whenever the first T fails, on the empty  *)
(* input in particular, and never yields an empty list; on an input that   *)
(* is exactly one T it yields a list of exactly that one element.          *)
(***************************************************************************)
NonEmptyNeedsFirst ==
    Returned("PunctuatedNonEmpty") =>
        /\ ~Parse(op.of, input).ok => ~result.ok
        /\ input = <<>> => ~result.ok
        /\ result.ok => Len(result.val.list) >= 1
        /\ (op.of = Identifier /\ IsIdentText(input)) =>
              result = Ok(<<>>, [list |-> <<[name |-> input]>>,
                                 separator |-> [term |-> "Comma"]])

\* an input that is not empty and does not begin with a T
NonEmptyFailsWitness ==
    /\ Returned("PunctuatedNonEmpty")
    /\ op.of = Identifier
    /\ Len(input) >= 2
    /\ ~Parse(Identifier, input).ok
    /\ ~result.ok

RECURSIVE SplitOn(_, _)
\* the pieces of s between the occurrences of ch
SplitOn(s, ch) ==
    IF \E k \in 1..Len(s) : s[k] = ch
    THEN LET k == CHOOSE k \in 1..Len(s) :
                      s[k] = ch /\ \A j \in 1..(k - 1) : s[j] # ch
         IN  <<Take(s, k - 1)>> \o SplitOn(Drop(s, k), ch)
    ELSE <<s>>

====
